---- MODULE Spec2Model ----
(***************************************************************************)
(* AaranyaMitra backend: four CSV-backed tables (fra, assets, socio, dss)  *)
(* behind load / filter / add endpoints, and the DSS recommendation        *)
(* pipeline (three predictors followed by three threshold rules).          *)
(*                                                                         *)
(* Modelling conventions                                                   *)
(*  - A text (a CSV field, a Python str) is a sequence of one-character    *)
(*    strings, so that formatting and parsing are computed digit by digit. *)
(*  - A cell of a DataFrame is a tagged value: a number, a text or the     *)
(*    missing value (NaN / None).  Numbers are integers: the int64/float64 *)
(*    distinction is not modelled (to_csv and read_csv keep the numeric    *)
(*    value of both).                                                      *)
(*  - A handler's result (resp) is what the Python function returns or the *)
(*    HTTPException it raises; StatusCode(resp) is the status the client   *)
(*    receives once the framework has rendered that result as JSON.        *)
(*  - Predictor outputs are in thousandths (40000 is 40.0).                *)
(***************************************************************************)
EXTENDS Integers, Sequences, FiniteSets, TLC

VARIABLES files, resp, models, memo, procs, order

vars == <<files, resp, models, memo, procs, order>>

(***************************************************************************)
(* Bounds of the model.                                                    *)
(***************************************************************************)
MaxRows == 7

\* how many times in a row the normalizer is applied to one table
MaxCleans == 2

\* crashes of the server process during one run
MaxCrashes == 1

(***************************************************************************)
(* Generic helpers.                                                        *)
(***************************************************************************)
Range(s) == {s[i] : i \in 1..Len(s)}

IndexOf(s, x) == CHOOSE i \in 1..Len(s) : s[i] = x

SeqMap(Op(_), s) == [i \in 1..Len(s) |-> Op(s[i])]

(***************************************************************************)
(* Texts and cells.                                                        *)
(***************************************************************************)
Digits == <<"0", "1", "2", "3", "4", "5", "6", "7", "8", "9">>

IsDigit(c) == c \in Range(Digits)

DigitVal(c) == IndexOf(Digits, c) - 1

RECURSIVE NatToText(_)
NatToText(n) ==
    IF n < 10 THEN <<Digits[n + 1]>>
    ELSE NatToText(n \div 10) \o <<Digits[(n % 10) + 1]>>

\* str(int): the decimal digits, with a leading minus sign below zero
IntToText(n) == IF n < 0 THEN <<"-">> \o NatToText(0 - n) ELSE NatToText(n)

RECURSIVE DigitsToNat(_)
DigitsToNat(s) ==
    IF Len(s) = 0 THEN 0
    ELSE 10 * DigitsToNat(SubSeq(s, 1, Len(s) - 1)) + DigitVal(s[Len(s)])

AllDigits(s) == Len(s) > 0 /\ \A i \in 1..Len(s) : IsDigit(s[i])

\* the texts the numeric parser of pandas accepts (digit strings with an
\* optional sign; the other accepted forms do not occur in the model)
IsNumText(s) ==
    \/ AllDigits(s)
    \/ Len(s) > 1 /\ s[1] = "-" /\ AllDigits(Tail(s))

TextToInt(s) == IF s[1] = "-" THEN 0 - DigitsToNat(Tail(s)) ELSE DigitsToNat(s)

Num(n) == [t |-> "num", n |-> n, s |-> <<>>]
Str(s) == [t |-> "str", n |-> 0, s |-> s]
NaN == [t |-> "nan", n |-> 0, s |-> <<>>]

(***************************************************************************)
(* DataFrames and CSV files.                                               *)
(*   file  : [exists, cols, rows]  rows of texts, one text per column      *)
(*   frame : [cols, dtypes, rows]  rows of cells; dtype "num" or "obj"     *)
(***************************************************************************)
NoFile == [exists |-> FALSE, cols |-> <<>>, rows |-> <<>>]

CsvFile(cols, rows) == [exists |-> TRUE, cols |-> cols, rows |-> rows]

Frame(cols, dtypes, rows) == [cols |-> cols, dtypes |-> dtypes, rows |-> rows]

Column(rows, j) == [i \in 1..Len(rows) |-> rows[i][j]]

\* the rows of a table rebuilt from its columns
FromColumns(columns, nrows) ==
    [i \in 1..nrows |-> [j \in 1..Len(columns) |-> columns[j][i]]]

\* pandas.read_csv: the default set of texts read as missing
NaTexts ==
    { <<>>, <<"N", "A">>, <<"N", "/", "A">>, <<"n", "/", "a">>,
      <<"N", "a", "N">>, <<"n", "a", "n">>, <<"N", "U", "L", "L">>,
      <<"n", "u", "l", "l">>, <<"N", "o", "n", "e">>, <<"#", "N", "/", "A">>,
      <<"#", "N", "A">>, <<"<", "N", "A", ">">>, <<"-", "N", "a", "N">>,
      <<"-", "n", "a", "n">> }

\* pandas.read_csv on one column: a column whose non-missing fields are all
\* numeric is numeric; otherwise every non-missing field stays a text
ReadColumn(texts) ==
    LET present == {i \in 1..Len(texts) : texts[i] \notin NaTexts}
        numeric == Len(texts) > 0 /\ \A i \in present : IsNumText(texts[i])
    IN  [dtype |-> IF numeric THEN "num" ELSE "obj",
         cells |-> [i \in 1..Len(texts) |->
                      IF i \notin present THEN NaN
                      ELSE IF numeric THEN Num(TextToInt(texts[i]))
                      ELSE Str(texts[i])]]

read_csv(file) ==
    LET n == Len(file.rows)
        cs == [j \in 1..Len(file.cols) |-> ReadColumn(Column(file.rows, j))]
    IN  Frame(file.cols,
              [j \in 1..Len(file.cols) |-> cs[j].dtype],
              FromColumns([j \in 1..Len(file.cols) |-> cs[j].cells], n))

\* DataFrame.to_csv(index=False): one text per cell, missing written empty
CellText(c) ==
    IF c.t = "num" THEN IntToText(c.n)
    ELSE IF c.t = "str" THEN c.s
    ELSE <<>>

to_csv(df) ==
    CsvFile(df.cols,
            [i \in 1..Len(df.rows) |->
               [j \in 1..Len(df.cols) |-> CellText(df.rows[i][j])]])

(***************************************************************************)
(* clean_numeric (utils/preprocessing.py).                                 *)
(***************************************************************************)
\* the texts the float parser of pandas.to_numeric reads as NaN
NanTexts == { <<>>, <<"n", "a", "n">>, <<"N", "a", "N">>, <<"N", "A", "N">> }

Convertible(c) ==
    c.t # "str" \/ IsNumText(c.s) \/ c.s \in NanTexts

ToNumber(c) ==
    IF c.t # "str" THEN c
    ELSE IF IsNumText(c.s) THEN Num(TextToInt(c.s))
    ELSE NaN

\* pandas.to_numeric(column, errors="ignore"): all cells or none
to_numeric(col) ==
    IF col.dtype = "num" THEN col
    ELSE IF \A i \in 1..Len(col.cells) : Convertible(col.cells[i])
    THEN [dtype |-> "num", cells |-> SeqMap(ToNumber, col.cells)]
    ELSE col

Placeholders ==
    { <<"N", "a", "N">>, <<"n", "a", "n">>, <<"N", "U", "L", "L">>,
      <<"n", "u", "l", "l">>, <<"N", "o", "n", "e">>, <<"-">>, <<>> }

\* a replacement that also takes a cell that merely starts with a placeholder
ReplaceCell_Prefix(c) ==
    IF c.t = "str"
       /\ \E n \in 0..Len(c.s) : SubSeq(c.s, 1, n) \in Placeholders \ {<<>>}
    THEN NaN
    ELSE IF c.t = "str" /\ c.s = <<>> THEN NaN ELSE c

ReplaceCell(c) == IF c.t = "str" /\ c.s \in Placeholders THEN NaN ELSE c

\* Series.replace([...], np.nan): whole-cell matches only
replace_placeholders(col) ==
    [dtype |-> col.dtype, cells |-> SeqMap(ReplaceCell, col.cells)]

\* a normalizer without the second conversion attempt
CleanColumn_NoRetry(col) ==
    LET c1 == to_numeric(col)
    IN  IF c1.dtype = "obj" THEN replace_placeholders(c1) ELSE c1

\* the body of the loop of clean_numeric, for one column
CleanColumn(col) ==
    LET c1 == to_numeric(col)
    IN  IF c1.dtype = "obj" THEN to_numeric(replace_placeholders(c1)) ELSE c1

clean_numeric(df) ==
    LET cs == [j \in 1..Len(df.cols) |->
                 CleanColumn([dtype |-> df.dtypes[j],
                              cells |-> Column(df.rows, j)])]
    IN  Frame(df.cols,
              [j \in 1..Len(df.cols) |-> cs[j].dtype],
              FromColumns([j \in 1..Len(df.cols) |-> cs[j].cells],
                          Len(df.rows)))

(***************************************************************************)
(* Records and the append (pd.DataFrame([record]), pd.concat).             *)
(* A record is a sequence of <<key, cell>> pairs in insertion order.       *)
(***************************************************************************)
Keys(record) == [i \in 1..Len(record) |-> record[i][1]]

HasKey(record, k) == \E i \in 1..Len(record) : record[i][1] = k

Value(record, k) == record[CHOOSE i \in 1..Len(record) : record[i][1] = k][2]

CellDtype(c) == IF c.t = "num" THEN "num" ELSE "obj"

\* pd.DataFrame([record]): one row, the record's keys as columns
DataFrameOf(record) ==
    Frame(Keys(record),
          [i \in 1..Len(record) |-> CellDtype(record[i][2])],
          << [i \in 1..Len(record) |-> record[i][2]] >>)

ColIndex(df, k) == CHOOSE j \in 1..Len(df.cols) : df.cols[j] = k

HasCol(df, k) == k \in Range(df.cols)

CellAt(df, i, k) == IF HasCol(df, k) THEN df.rows[i][ColIndex(df, k)] ELSE NaN

\* a concat with its arguments swapped: the new row comes first
concat_Prepend(df, new) ==
    LET extra == SelectSeq(new.cols, LAMBDA k : ~HasCol(df, k))
        cols == df.cols \o extra
    IN  Frame(cols,
              [j \in 1..Len(cols) |->
                 IF HasCol(df, cols[j]) THEN df.dtypes[ColIndex(df, cols[j])]
                 ELSE "obj"],
              [i \in 1..Len(new.rows) |->
                 [j \in 1..Len(cols) |-> CellAt(new, i, cols[j])]]
              \o [i \in 1..Len(df.rows) |->
                    [j \in 1..Len(cols) |-> CellAt(df, i, cols[j])]])

\* a concat that joins on the columns of the stored table only
concat_DropUnknown(df, new) ==
    Frame(df.cols,
          [j \in 1..Len(df.cols) |->
             IF HasCol(new, df.cols[j])
                /\ new.dtypes[ColIndex(new, df.cols[j])] = "obj"
             THEN "obj" ELSE df.dtypes[j]],
          df.rows
          \o [i \in 1..Len(new.rows) |->
                [j \in 1..Len(df.cols) |-> CellAt(new, i, df.cols[j])]])

\* pd.concat([df, new_df], ignore_index=True): the columns of df in their
\* order, then the columns only new_df has; cells absent on one side are
\* missing; a column keeps a numeric dtype only if both sides are numeric
concat(df, new) ==
    LET extra == SelectSeq(new.cols, LAMBDA k : ~HasCol(df, k))
        cols == df.cols \o extra
        DtypeOf(k) ==
            IF HasCol(df, k) /\ df.dtypes[ColIndex(df, k)] = "obj" THEN "obj"
            ELSE IF HasCol(new, k) /\ new.dtypes[ColIndex(new, k)] = "obj"
            THEN "obj"
            ELSE "num"
    IN  Frame(cols,
              [j \in 1..Len(cols) |-> DtypeOf(cols[j])],
              [i \in 1..Len(df.rows) |->
                 [j \in 1..Len(cols) |-> CellAt(df, i, cols[j])]]
              \o [i \in 1..Len(new.rows) |->
                    [j \in 1..Len(cols) |-> CellAt(new, i, cols[j])]])

\* DataFrame.to_dict(orient="records"): one mapping from column to cell per row
to_dict(df) ==
    [i \in 1..Len(df.rows) |->
       [k \in Range(df.cols) |-> df.rows[i][ColIndex(df, k)]]]

(***************************************************************************)
(* Configuration of the routers: tables and required fields.               *)
(***************************************************************************)
KeyedTables == {"fra", "assets", "socio"}

Tables == KeyedTables \cup {"dss"}

FraRequired ==
    <<"State_Code", "District_Code", "Village_ID", "FRA_Type", "Claims_Filed",
      "Claims_Verified", "Patas_Granted", "Area_Claimed_ha", "Area_Granted_ha">>

AssetRequired ==
    <<"State_Code", "District_Code", "Village_ID", "Agri_Land_ha",
      "Forest_Area_ha", "WaterBodies_Count", "Water_Area_ha",
      "Homesteads_Count">>

SocioRequired ==
    <<"State_Code", "District_Code", "Village_ID", "FRA_Households",
      "Tribal_Population", "Poverty_Index", "Literacy_Rate">>

required_columns(t) ==
    IF t = "fra" THEN FraRequired
    ELSE IF t = "assets" THEN AssetRequired
    ELSE SocioRequired

\* models/dss_models.py, DSSRuleBase: the fields declared without a default
RuleRequired == <<"Condition", "Recommendation">>

(***************************************************************************)
(* Responses.  One shape for every handler; unused fields keep defaults.   *)
(*   status 200 with body / record / dss, or the status and detail of the  *)
(*   HTTPException raised.  raw holds the unrounded predictor outputs of a *)
(*   recommend call, fed the field names each predictor was given, and df  *)
(*   the table an add held in memory when it returned (none is part of the *)
(*   response; kept to state the claims).                                  *)
(***************************************************************************)
NoFrame == Frame(<<>>, <<>>, <<>>)

NoArg == [given |-> FALSE, v |-> 0]

Arg(n) == [given |-> TRUE, v |-> n]

NoDss ==
    [Land_Use_Prediction |-> 0, Water_Index |-> 0, Productivity_Index |-> 0,
     Recommended_Schemes |-> <<>>]

NoResp ==
    [op |-> "none", table |-> "none", status |-> 0, detail |-> "",
     body |-> <<>>, args |-> <<NoArg, NoArg, NoArg>>,
     record |-> <<>>, df |-> NoFrame, dss |-> NoDss, raw |-> <<0, 0, 0>>,
     input |-> 0, fed |-> <<>>]

HTTPException(op, t, status, detail) ==
    [NoResp EXCEPT !.op = op, !.table = t, !.status = status,
                   !.detail = detail]

\* The framework renders a returned value with json.dumps(allow_nan=False):
\* a missing cell (float nan) in the returned rows makes the rendering raise,
\* and the client receives 500 in place of the handler's 200.
HasNaN(body) ==
    \E i \in 1..Len(body) : \E k \in DOMAIN body[i] : body[i][k] = NaN

StatusCode(r) == IF r.status = 200 /\ HasNaN(r.body) THEN 500 ELSE r.status

(***************************************************************************)
(* Handlers of routers/fra.py, assets.py, socio_economic.py (the three are *)
(* the same code up to DATA_PATH and the required fields).                 *)
(***************************************************************************)
\* a loader that also fills the missing cells of numeric columns with 0
\* (fill_missing(df, "zero") of utils/preprocessing.py applied on load)
get_data_FillZero(t) ==
    LET df == clean_numeric(read_csv(files[t]))
    IN  Frame(df.cols, df.dtypes,
              [i \in 1..Len(df.rows) |->
                 [j \in 1..Len(df.cols) |->
                    IF df.dtypes[j] = "num" /\ df.rows[i][j].t = "nan"
                    THEN Num(0) ELSE df.rows[i][j]]])

\* get_fra_data / get_asset_data / get_socio_data / get_rules, past the
\* os.path.exists check
get_data(t) == clean_numeric(read_csv(files[t]))

\* a file pd.read_csv cannot parse: it holds no header line
Unreadable(file) == file.exists /\ file.cols = <<>>

\* the status get_*_data raises instead of returning a table (0: none):
\* 404 from os.path.exists, 500 from the except clause of load_csv
LoadError(t) ==
    IF ~files[t].exists THEN 404
    ELSE IF Unreadable(files[t]) THEN 500
    ELSE 0

LoadDetail(t) ==
    IF ~files[t].exists THEN "dataset not found" ELSE "Error reading CSV"

\* a presence test (`is not None`) in place of truthiness
Truthy_Given(a) == a.given

\* python truthiness of an Optional[int] query parameter
Truthy(a) == a.given /\ a.v # 0

\* df[df[col] == value]
Select(df, col, value) ==
    LET j == ColIndex(df, col)
    IN  Frame(df.cols, df.dtypes,
              SelectSeq(df.rows, LAMBDA r : r[j].t = "num" /\ r[j].n = value))

\* an emptiness test that never reports an empty result
Empty_Never(df) == FALSE

\* an emptiness test that looks at the columns only
Empty_NoColumns(df) == Len(df.cols) = 0

\* df.empty
Empty(df) == Len(df.rows) = 0 \/ Len(df.cols) = 0

\* a filter that forgets the village predicate
FilterFrame_IgnoreVillage(df, state_code, district_code, village_id) ==
    LET d1 == IF Truthy(state_code)
              THEN Select(df, "State_Code", state_code.v) ELSE df
    IN  IF Truthy(district_code)
        THEN Select(d1, "District_Code", district_code.v) ELSE d1

FilterFrame(df, state_code, district_code, village_id) ==
    LET d1 == IF Truthy(state_code)
              THEN Select(df, "State_Code", state_code.v) ELSE df
        d2 == IF Truthy(district_code)
              THEN Select(d1, "District_Code", district_code.v) ELSE d1
    IN  IF Truthy(village_id)
        THEN Select(d2, "Village_ID", village_id.v) ELSE d2

GetAll(t) ==
    /\ resp' = IF LoadError(t) # 0
               THEN HTTPException("all", t, LoadError(t),
                                        LoadDetail(t))
               ELSE [NoResp EXCEPT !.op = "all", !.table = t, !.status = 200,
                                   !.body = to_dict(get_data(t))]
    /\ UNCHANGED <<files, models, memo, procs, order>>

Filter(t, state_code, district_code, village_id) ==
    /\ resp' =
         IF LoadError(t) # 0
         THEN [HTTPException("filter", t, LoadError(t),
                                        LoadDetail(t))
                 EXCEPT !.args = <<state_code, district_code, village_id>>]
         ELSE LET df == FilterFrame(get_data(t), state_code, district_code,
                                    village_id)
              IN  IF Empty(df)
                  THEN [HTTPException("filter", t, 404,
                                      "No records found for given filter")
                          EXCEPT !.args =
                                   <<state_code, district_code, village_id>>]
                  ELSE [NoResp EXCEPT
                          !.op = "filter", !.table = t, !.status = 200,
                          !.args = <<state_code, district_code, village_id>>,
                          !.body = to_dict(df)]
    /\ UNCHANGED <<files, models, memo, procs, order>>

\* a check that collects the missing fields and reports the last one
RECURSIVE FirstMissing_Last(_, _)
FirstMissing_Last(required, record) ==
    IF required = <<>> THEN ""
    ELSE IF ~HasKey(record, required[Len(required)])
    THEN required[Len(required)]
    ELSE FirstMissing_Last(SubSeq(required, 1, Len(required) - 1), record)

\* for col in required_columns: if col not in record: raise ...
RECURSIVE FirstMissing(_, _)
FirstMissing(required, record) ==
    IF required = <<>> THEN ""
    ELSE IF ~HasKey(record, Head(required)) THEN Head(required)
    ELSE FirstMissing(Tail(required), record)

\* the table held in memory after the append
Appended(t, record) == concat(get_data(t), DataFrameOf(record))

\* a save with one path shared by every table
save_csv_Shared(df, t) == [u \in Tables |-> to_csv(df)]

\* save_csv: the whole file is replaced by the rendering of the frame
save_csv(df, t) == [files EXCEPT ![t] = to_csv(df)]

TotalRows == Len(files["fra"].rows) + Len(files["assets"].rows)
             + Len(files["socio"].rows) + Len(files["dss"].rows)

AddResponse(t, record, df) ==
    [NoResp EXCEPT !.op = "add", !.table = t, !.status = 200,
                   !.detail = "Record added successfully", !.record = record,
                   !.df = df]

\* an add that loads the table before it looks at the record
Add_LoadFirst(t, record) ==
    LET missing == FirstMissing(required_columns(t), record)
    IN  IF LoadError(t) # 0
        THEN /\ resp' = [HTTPException("add", t, LoadError(t),
                                        LoadDetail(t))
                           EXCEPT !.record = record]
             /\ UNCHANGED <<files, models, memo, procs, order>>
        ELSE IF missing # ""
        THEN /\ resp' = [HTTPException("add", t, 400,
                                       "Missing field: " \o missing)
                           EXCEPT !.record = record]
             /\ UNCHANGED <<files, models, memo, procs, order>>
        ELSE LET df == Appended(t, record)
             IN  /\ TotalRows < MaxRows
                 /\ files' = save_csv(df, t)
                 /\ resp' = AddResponse(t, record, df)
                 /\ UNCHANGED <<models, memo, procs, order>>

Add(t, record) ==
    LET missing == FirstMissing(required_columns(t), record)
    IN  IF missing # ""
        THEN /\ resp' = [HTTPException("add", t, 400,
                                       "Missing field: " \o missing)
                           EXCEPT !.record = record]
             /\ UNCHANGED <<files, models, memo, procs, order>>
        ELSE IF LoadError(t) # 0
        THEN /\ resp' = [HTTPException("add", t, LoadError(t),
                                        LoadDetail(t))
                           EXCEPT !.record = record]
             /\ UNCHANGED <<files, models, memo, procs, order>>
        ELSE LET df == Appended(t, record)
             IN  /\ TotalRows < MaxRows
                 /\ files' = save_csv(df, t)
                 /\ resp' = AddResponse(t, record, df)
                 /\ UNCHANGED <<models, memo, procs, order>>

\* routers/dss.py: GET /dss/rules
GetRules ==
    /\ resp' = IF LoadError("dss") # 0
               THEN HTTPException("rules", "dss", LoadError("dss"),
                                        LoadDetail("dss"))
               ELSE [NoResp EXCEPT !.op = "rules", !.table = "dss",
                                   !.status = 200,
                                   !.body = to_dict(get_data("dss"))]
    /\ UNCHANGED <<files, models, memo, procs, order>>

\* routers/dss.py: POST /dss/add (no required-field check)
AddRule(record) ==
    IF LoadError("dss") # 0
    THEN /\ resp' = [HTTPException("add", "dss", LoadError("dss"),
                                        LoadDetail("dss"))
                       EXCEPT !.record = record]
         /\ UNCHANGED <<files, models, memo, procs, order>>
    ELSE LET df == Appended("dss", record)
         IN  /\ TotalRows < MaxRows
             /\ files' = save_csv(df, "dss")
             /\ resp' = [AddResponse("dss", record, df)
                           EXCEPT !.detail = "DSS rule added successfully"]
             /\ UNCHANGED <<models, memo, procs, order>>

(***************************************************************************)
(* The service layer (services/*.py), a second implementation of the same  *)
(* operations that no router imports.  fra_service, asset_service and      *)
(* socio_service repeat the router functions line for line; dss_service    *)
(* differs in add_rule, which appends to the table as read_csv returns it. *)
(***************************************************************************)
\* services/dss_service.py: get_rules
ServiceGetRules ==
    /\ resp' = IF LoadError("dss") # 0
               THEN HTTPException("service_rules", "dss", LoadError("dss"),
                                  LoadDetail("dss"))
               ELSE [NoResp EXCEPT !.op = "service_rules", !.table = "dss",
                                   !.status = 200,
                                   !.body = to_dict(get_data("dss"))]
    /\ UNCHANGED <<files, models, memo, procs, order>>

\* services/dss_service.py: add_rule (load_csv without clean_numeric)
ServiceAddRule(record) ==
    IF LoadError("dss") # 0
    THEN /\ resp' = [HTTPException("service_add", "dss", LoadError("dss"),
                                   LoadDetail("dss"))
                       EXCEPT !.record = record]
         /\ UNCHANGED <<files, models, memo, procs, order>>
    ELSE LET df == concat(read_csv(files["dss"]), DataFrameOf(record))
         IN  /\ TotalRows < MaxRows
             /\ files' = save_csv(df, "dss")
             /\ resp' = [AddResponse("dss", record, df)
                           EXCEPT !.op = "service_add",
                                  !.detail = "DSS rule added successfully"]
             /\ UNCHANGED <<models, memo, procs, order>>

(***************************************************************************)
(* A crash during the save.  df.to_csv(path) opens the file for writing,   *)
(* which empties it, then writes the header line and the rows in order;    *)
(* a process killed on the way leaves a prefix of the new content.  The    *)
(* crash point is the number of whole lines written and the number of      *)
(* cells of the next line that reached the file.                           *)
(***************************************************************************)
\* a save that replaces the file in one step: a crash leaves the old file
CrashedFile_Atomic(t, df, lines, cells) ==
    IF lines = Len(df.rows) + 1 THEN to_csv(df) ELSE files[t]

\* what a reader finds in the file after a crash at <<lines, cells>>; a
\* last line cut short is read with its absent fields missing
CrashedFile(t, df, lines, cells) ==
    LET full == to_csv(df)
        w == Len(full.cols)
    IN  IF lines = 0
        THEN CsvFile(SubSeq(full.cols, 1, cells), <<>>)
        ELSE CsvFile(full.cols,
                     SubSeq(full.rows, 1, lines - 1)
                     \o IF cells > 0 /\ lines <= Len(full.rows)
                        THEN << [j \in 1..w |->
                                   IF j <= cells THEN full.rows[lines][j]
                                   ELSE <<>>] >>
                        ELSE <<>>)

Crashes == Len(SelectSeq(order, LAMBDA e : e[2] = "crash"))

\* add_fra_claim / add_asset / add_socio killed inside save_csv
AddCrash(t, record, lines, cells) ==
    /\ FirstMissing(required_columns(t), record) = ""
    /\ LoadError(t) = 0
    /\ TotalRows < MaxRows
    /\ Crashes < MaxCrashes
    /\ lines \in 0..(Len(files[t].rows) + 2)
    /\ files' = [files EXCEPT
                   ![t] = CrashedFile(t, Appended(t, record), lines, cells)]
    /\ resp' = [NoResp EXCEPT !.op = "crash", !.table = t, !.record = record,
                              !.df = Appended(t, record),
                              !.args = <<Arg(lines), Arg(cells), NoArg>>]
    /\ order' = Append(order, <<0, "crash">>)
    /\ UNCHANGED <<models, memo, procs>>

(***************************************************************************)
(* Concurrent add calls.  The handlers are plain `def` endpoints, which    *)
(* the server runs on worker threads: between the load of the file         *)
(* (get_*_data) and its rewrite (save_csv) another request may run.        *)
(* Each process makes one add call, in two steps.                          *)
(***************************************************************************)
Procs == {1, 2}

IdleProc ==
    [pc |-> "idle", table |-> "none", record |-> <<>>, df |-> NoFrame,
     status |-> 0, detail |-> ""]

IdleProcs == [p \in Procs |-> IdleProc]

\* the validation and the load of add_fra_claim / add_asset / add_socio
AddLoad(p, t, record) ==
    LET missing == FirstMissing(required_columns(t), record)
        call == [IdleProc EXCEPT !.table = t, !.record = record]
    IN  /\ procs[p].pc = "idle"
        /\ procs' =
             [procs EXCEPT ![p] =
                IF missing # ""
                THEN [call EXCEPT !.pc = "done", !.status = 400,
                                  !.detail = "Missing field: " \o missing]
                ELSE IF LoadError(t) # 0
                THEN [call EXCEPT !.pc = "done", !.status = LoadError(t),
                                  !.detail = LoadDetail(t)]
                ELSE [call EXCEPT !.pc = "loaded", !.df = get_data(t)]]
        /\ order' = Append(order, <<p, "load">>)
        /\ UNCHANGED <<files, resp, models, memo>>

\* a handler that loads the file again just before it saves
PersistFrame_Reload(p) ==
    concat(get_data(procs[p].table), DataFrameOf(procs[p].record))

\* a handler that drops the first loaded row when it appends
PersistFrame_DropFirst(p) ==
    concat(Frame(procs[p].df.cols, procs[p].df.dtypes, Tail(procs[p].df.rows)),
           DataFrameOf(procs[p].record))

\* the frame the handler saves: the table it loaded, plus its record
PersistFrame(p) == concat(procs[p].df, DataFrameOf(procs[p].record))

\* the append, the save and the return of the add handlers
AddPersist(p) ==
    /\ procs[p].pc = "loaded"
    /\ files' = save_csv(PersistFrame(p), procs[p].table)
    /\ procs' = [procs EXCEPT ![p].pc = "done", ![p].status = 200,
                              ![p].detail = "Record added successfully"]
    /\ order' = Append(order, <<p, "persist">>)
    /\ UNCHANGED <<resp, models, memo>>

(***************************************************************************)
(* The DSS pipeline (routers/dss.py, services/dss_service.py).             *)
(*                                                                         *)
(* A predictor is a pickled estimator loaded once at import; the model     *)
(* keeps of it what the handler relies on: predict is a fixed function of  *)
(* the ordered feature vector.  A loaded artifact is a number selecting    *)
(* one such function; outputs are in thousandths.                          *)
(***************************************************************************)
LandOutputs == <<0, 1, 2>>

WaterOutputs == <<49900, 49996, 50000, 60000>>

ProductivityOutputs == <<39900, 39996, 40000, 45000>>

RECURSIVE Weighted(_)
Weighted(features) ==
    IF features = <<>> THEN 0
    ELSE Weighted(SubSeq(features, 1, Len(features) - 1))
         + Len(features) * features[Len(features)]

\* model.predict([features])[0]
predict(model, outputs, features) ==
    outputs[((model + Weighted(features)) % Len(outputs)) + 1]

ProductivityThreshold == 40000

WaterThreshold == 50000

AgricultureClass == 1

\* the keys of `data` each feature list is built from, in list order
LandFields ==
    <<"Claims_Filed", "Claims_Verified", "Patas_Granted", "Area_Claimed_ha",
      "Area_Granted_ha">>

\* a water feature list that also takes a claims field
WaterFields_WithClaims ==
    <<"WaterBodies_Count", "Water_Area_ha", "Agri_Land_ha", "Claims_Filed">>

WaterFields == <<"WaterBodies_Count", "Water_Area_ha", "Agri_Land_ha">>

\* a productivity feature list with the asset fields ahead of the claims
\* fields
ProductivityFields_AssetsFirst ==
    <<"Agri_Land_ha", "Forest_Area_ha", "WaterBodies_Count", "Water_Area_ha",
      "Homesteads_Count", "Claims_Filed", "Claims_Verified", "Patas_Granted",
      "Area_Claimed_ha", "Area_Granted_ha", "FRA_Households",
      "Tribal_Population", "Poverty_Index", "Literacy_Rate">>

ProductivityFields ==
    <<"Claims_Filed", "Claims_Verified", "Patas_Granted", "Area_Claimed_ha",
      "Area_Granted_ha", "Agri_Land_ha", "Forest_Area_ha", "WaterBodies_Count",
      "Water_Area_ha", "Homesteads_Count", "FRA_Households",
      "Tribal_Population", "Poverty_Index", "Literacy_Rate">>

land_features(data) == [i \in 1..Len(LandFields) |-> data[LandFields[i]]]

water_features(data) == [i \in 1..Len(WaterFields) |-> data[WaterFields[i]]]

productivity_features(data) ==
    [i \in 1..Len(ProductivityFields) |-> data[ProductivityFields[i]]]

\* variants of the rule engine with one slip each
recommendations_WaterFirst(land_use_pred, water_index, productivity_index) ==
    LET r1 == IF water_index < WaterThreshold
              THEN <<"Jal Jeevan Mission">> ELSE <<>>
        r2 == IF productivity_index < ProductivityThreshold
              THEN Append(r1, "MGNREGA") ELSE r1
    IN  IF land_use_pred = AgricultureClass
        THEN Append(r2, "PM-KISAN Yojana") ELSE r2

recommendations_Inclusive(land_use_pred, water_index, productivity_index) ==
    LET r1 == IF productivity_index <= ProductivityThreshold
              THEN <<"MGNREGA">> ELSE <<>>
        r2 == IF water_index <= WaterThreshold
              THEN Append(r1, "Jal Jeevan Mission") ELSE r1
    IN  IF land_use_pred = AgricultureClass
        THEN Append(r2, "PM-KISAN Yojana") ELSE r2

recommendations_Repeat(land_use_pred, water_index, productivity_index) ==
    LET r1 == IF productivity_index < ProductivityThreshold
              THEN <<"MGNREGA">> ELSE <<>>
        r2 == IF water_index < WaterThreshold
              THEN Append(r1, "Jal Jeevan Mission") ELSE r1
    IN  IF land_use_pred = AgricultureClass
        THEN Append(r2, "MGNREGA") ELSE r2

\* a rule engine that reads the stored rules: one more label per stored rule
\* beyond the first
recommendations_FromRules(land_use_pred, water_index, productivity_index) ==
    LET r1 == IF productivity_index < ProductivityThreshold
              THEN <<"MGNREGA">> ELSE <<>>
        r2 == IF water_index < WaterThreshold \/ Len(files["dss"].rows) > 1
              THEN Append(r1, "Jal Jeevan Mission") ELSE r1
    IN  IF land_use_pred = AgricultureClass
        THEN Append(r2, "PM-KISAN Yojana") ELSE r2

\* a rule engine that gives up when the rules file is missing
recommendations_RulesMissing(land_use_pred, water_index, productivity_index) ==
    IF ~files["dss"].exists THEN <<>>
    ELSE LET r1 == IF productivity_index < ProductivityThreshold
                   THEN <<"MGNREGA">> ELSE <<>>
             r2 == IF water_index < WaterThreshold
                   THEN Append(r1, "Jal Jeevan Mission") ELSE r1
         IN  IF land_use_pred = AgricultureClass
             THEN Append(r2, "PM-KISAN Yojana") ELSE r2

\* the three if-statements that build the list `recommendations`
recommendations(land_use_pred, water_index, productivity_index) ==
    LET r1 == IF productivity_index < ProductivityThreshold
              THEN <<"MGNREGA">> ELSE <<>>
        r2 == IF water_index < WaterThreshold
              THEN Append(r1, "Jal Jeevan Mission") ELSE r1
    IN  IF land_use_pred = AgricultureClass
        THEN Append(r2, "PM-KISAN Yojana") ELSE r2

\* a response that cuts the third decimal off
Round2_Truncate(x) == x \div 10

\* round(float(x), 2), from thousandths to hundredths; the predictor outputs
\* of the model avoid the ties, where binary floats decide
Round2(x) == (x + 5) \div 10

NoMemo ==
    [set |-> FALSE, input |-> 0, rows |-> 0, raw |-> <<0, 0, 0>>,
     schemes |-> <<>>, dss |-> NoDss, rules |-> NoFile]

\* POST /dss/recommend.  remember: the observer keeps this call's predictor
\* outputs and list in memo, to compare a later call with
Recommend(input, data, remember) ==
    LET land_use_pred == predict(models.land, LandOutputs, land_features(data))
        water_index == predict(models.water, WaterOutputs,
                               water_features(data))
        productivity_index == predict(models.productivity, ProductivityOutputs,
                                      productivity_features(data))
        schemes == recommendations(land_use_pred, water_index,
                                   productivity_index)
        response == [Land_Use_Prediction |-> land_use_pred,
                     Water_Index |-> Round2(water_index),
                     Productivity_Index |-> Round2(productivity_index),
                     Recommended_Schemes |-> schemes]
    IN  /\ resp' = [NoResp EXCEPT
                      !.op = "recommend", !.table = "dss", !.status = 200,
                      !.input = input,
                      !.raw = <<land_use_pred, water_index,
                                productivity_index>>,
                      !.fed = <<LandFields, WaterFields, ProductivityFields>>,
                      !.dss = response]
        /\ memo' = IF remember
                   THEN [set |-> TRUE, input |-> input, rows |-> TotalRows,
                         raw |-> <<land_use_pred, water_index,
                                   productivity_index>>,
                         schemes |-> schemes, dss |-> response,
                         rules |-> files["dss"]]
                   ELSE memo
        /\ UNCHANGED <<files, models, procs, order>>

(***************************************************************************)
(* Inputs of the model: the data files the process starts with and the     *)
(* requests the clients send.                                              *)
(***************************************************************************)
Txt2(a, b) == <<a, b>>

IFR == <<"I", "F", "R">>
CFR == <<"C", "F", "R">>
Dash == <<"-">>
NA == <<"N", "A">>
MP == <<"M", "P">>

FraFileClean ==
    CsvFile(FraRequired,
            << <<Txt2("2", "3"), <<"5">>, <<"1", "0", "1">>, IFR, <<"1", "0">>,
                 <<"8">>, <<"5">>, <<"1", "2">>, <<"7">> >>,
               <<Txt2("2", "3"), <<"5">>, <<"1", "0", "2">>, CFR, <<"4">>,
                 <<"4">>, <<"2">>, <<"3", "0">>, <<"2", "0">> >> >>)

\* a hand-written file: placeholders in two numeric columns
FraFileRaw ==
    CsvFile(FraRequired,
            << <<Txt2("2", "3"), <<"5">>, <<"1", "0", "1">>, IFR, <<"1", "0">>,
                 Dash, <<"5">>, <<"1", "2">>, NA >>,
               <<Txt2("2", "7"), <<"5">>, <<"1", "0", "1">>, Dash, <<"4">>,
                 <<"0", "4">>, <<"2">>, <<"3", "0">>, <<"2", "0">> >> >>)

\* a claims file holding its header line and no row
FraFileEmpty == CsvFile(FraRequired, <<>>)

AssetFile ==
    CsvFile(AssetRequired,
            << <<Txt2("2", "3"), <<"5">>, <<"1", "0", "1">>, <<"5", "0">>,
                 <<"3", "0">>, <<"3">>, <<"1", "0">>, <<"4", "0">> >> >>)

SocioFile ==
    CsvFile(SocioRequired,
            << <<Txt2("2", "3"), <<"5">>, <<"1", "0", "2">>, <<"6", "0">>,
                 <<"2", "0", "0">>, <<"3", "5">>, <<"6", "0">> >> >>)

RuleColumns == <<"Rule_ID", "Condition", "Recommendation">>

RulesFile ==
    CsvFile(RuleColumns,
            << << <<"1">>, <<"P", "<", "4", "0">>, <<"M", "G">> >> >>)

\* a hand-written rules file: "-" where a number and a text are unknown
RulesFileRaw ==
    CsvFile(RuleColumns,
            << << <<"1">>, <<"P", "<", "4", "0">>, <<"M", "G">> >>,
               << Dash, <<"W", "<", "5", "0">>, Dash >> >>)

\* the data directory: the claims file and the rules file vary
DataFiles(fra, rules) ==
    [t \in Tables |->
       IF t = "fra" THEN fra
       ELSE IF t = "assets" THEN AssetFile
       ELSE IF t = "socio" THEN SocioFile
       ELSE rules]

InitialFiles ==
    { DataFiles(f, RulesFile) : f \in {FraFileClean, FraFileRaw, NoFile} }
    \cup { DataFiles(NoFile, NoFile) }

Pairs(keys, cells) == [i \in 1..Len(keys) |-> <<keys[i], cells[i]>>]

Without(record, k) == SelectSeq(record, LAMBDA p : p[1] # k)

Replace(record, k, c) ==
    [i \in 1..Len(record) |->
       IF record[i][1] = k THEN <<k, c>> ELSE record[i]]

FraGood ==
    Pairs(FraRequired,
          <<Num(23), Num(5), Num(101), Str(IFR), Num(3), Num(2), Num(1),
            Num(9), Num(4)>>)

FraRecords ==
    { FraGood,
      Without(FraGood, "Area_Granted_ha"),
      Without(Without(FraGood, "District_Code"), "Area_Granted_ha"),
      Replace(FraGood, "State_Code", Str(Txt2("2", "3"))),
      Replace(FraGood, "FRA_Type", Str(Dash)),
      Replace(FraGood, "State_Code", Str(MP)) }

AssetGood ==
    Pairs(AssetRequired,
          <<Num(23), Num(5), Num(102), Num(8), Num(6), Num(1), Num(2),
            Num(7)>>)

AssetRecords == { AssetGood, Without(AssetGood, "Homesteads_Count") }

SocioGood ==
    Pairs(SocioRequired,
          <<Num(27), Num(5), Num(101), Num(6), Num(30), Num(45), Num(70)>>)

SocioRecords == { SocioGood, Without(SocioGood, "State_Code") }

GoodRecord(t) ==
    IF t = "fra" THEN FraGood ELSE IF t = "assets" THEN AssetGood ELSE SocioGood

\* a complete record with two keys the table has no column for, one sent
\* before the required fields and one after them
ExtraRecord(t) ==
    << <<"Remarks", Str(MP)>> >> \o GoodRecord(t)
    \o << <<"Source_Year", Num(21)>> >>

AssetExtra == ExtraRecord("assets")

\* per table, the complete record and the one with the two unknown keys
FraUnknown == { FraGood, ExtraRecord("fra") }

AssetUnknown == { AssetGood, AssetExtra }

SocioUnknown == { SocioGood, ExtraRecord("socio") }

UnknownRecords(t) ==
    IF t = "fra" THEN FraUnknown
    ELSE IF t = "assets" THEN AssetUnknown
    ELSE SocioUnknown

\* records no field of which is missing, with values outside the data model:
\* a percentage of 150, a negative count, a state code of 0
OddRecords(t) ==
    IF t = "socio" THEN { Replace(SocioGood, "Poverty_Index", Num(150)) }
    ELSE IF t = "assets"
    THEN { Replace(AssetGood, "WaterBodies_Count", Num(0 - 3)) }
    ELSE { Replace(FraGood, "State_Code", Num(0)) }

Records(t) ==
    IF t = "fra" THEN FraRecords
    ELSE IF t = "assets" THEN AssetRecords
    ELSE SocioRecords

RuleGood ==
    Pairs(RuleColumns, <<Num(2), Str(<<"W", "<", "5", "0">>),
                         Str(<<"J", "J", "M">>)>>)

RuleRecords == { RuleGood }

\* rules lacking a field DSSRuleBase requires
PartialRules ==
    { Without(RuleGood, "Recommendation"), Without(RuleGood, "Condition") }

\* query strings of GET /<table>/filter: <<state_code, district_code, village_id>>
FilterArgs ==
    { <<Arg(23), Arg(5), Arg(101)>>, <<Arg(23), Arg(5), Arg(102)>>,
      <<Arg(27), Arg(5), Arg(101)>>, <<NoArg, NoArg, NoArg>>,
      <<Arg(0), Arg(5), NoArg>>, <<NoArg, Arg(5), NoArg>>,
      <<Arg(0), Arg(0), Arg(0)>> }

DssFields ==
    <<"Claims_Filed", "Claims_Verified", "Patas_Granted", "Area_Claimed_ha",
      "Area_Granted_ha", "Agri_Land_ha", "Forest_Area_ha", "WaterBodies_Count",
      "Water_Area_ha", "Homesteads_Count", "FRA_Households",
      "Tribal_Population", "Poverty_Index", "Literacy_Rate">>

DssData(values) ==
    [k \in Range(DssFields) |-> values[IndexOf(DssFields, k)]]

\* request bodies of POST /dss/recommend
DssInputs ==
    << DssData(<<10, 8, 5, 12, 7, 50, 30, 3, 10, 40, 60, 200, 35, 60>>),
       DssData(<<4, 4, 2, 30, 20, 8, 6, 1, 2, 7, 6, 30, 45, 70>>),
       DssData(<<0, 0, 0, 0, 0, 1, 0, 0, 0, 0, 0, 0, 0, 0>>) >>

\* request bodies as sent: JSON objects, before validation
DssBody(i) == Pairs(DssFields, [j \in 1..Len(DssFields) |->
                                  Num(DssInputs[i][DssFields[j]])])

Fifty == <<"f", "i", "f", "t", "y">>

\* three well-formed bodies, then: a field missing, a text for a number, a
\* null, and a number sent as a numeric string
DssBodies ==
    << DssBody(1), DssBody(2), DssBody(3),
       Without(DssBody(1), "Literacy_Rate"),
       Replace(DssBody(1), "Agri_Land_ha", Str(Fifty)),
       Replace(DssBody(2), "Claims_Filed", NaN),
       Replace(DssBody(1), "Agri_Land_ha", Str(Txt2("5", "0"))) >>

\* a validation that only looks for absent fields
FieldInvalid_MissingOnly(body, k) == ~HasKey(body, k)

\* the validation of one field of DSSInput (int or float): the field is
\* required, a number is taken as it is, a numeric string is converted
FieldInvalid(body, k) ==
    \/ ~HasKey(body, k)
    \/ Value(body, k).t = "nan"
    \/ Value(body, k).t = "str" /\ ~IsNumText(Value(body, k).s)

Coerce(c) ==
    IF c.t = "num" THEN c.n
    ELSE IF c.t = "str" /\ IsNumText(c.s) THEN TextToInt(c.s)
    ELSE 0

\* input_data.dict() of a validated body
DSSInput(body) ==
    [k \in Range(DssFields) |->
       IF HasKey(body, k) THEN Coerce(Value(body, k)) ELSE 0]

\* POST /dss/recommend: the body is validated against DSSInput before the
\* handler runs; a body that fails is answered 422
PostRecommend(input, body, remember) ==
    IF \E k \in Range(DssFields) : FieldInvalid(body, k)
    THEN /\ resp' = [HTTPException("recommend", "dss", 422,
                                   "Unprocessable Entity")
                       EXCEPT !.input = input]
         /\ UNCHANGED <<files, models, memo, procs, order>>
    ELSE Recommend(input, DSSInput(body), remember)

\* MODEL_LAND_USE, MODEL_WATER, MODEL_PRODUCTIVITY: the artifacts load_model
\* looks for, in the order they are loaded
ModelFiles ==
    <<"models/land_use_classifier.pkl", "models/water_index_model.pkl",
      "models/productivity_model.pkl">>

\* the process once backend.main is imported with every artifact in place:
\* the three module-level estimators and the application serving requests
LoadedModels(l, w, p) ==
    [land |-> l, water |-> w, productivity |-> p, app |-> "running",
     artifacts |-> Range(ModelFiles)]

(***************************************************************************)
(* The sequential API: one request at a time, each handler run whole.      *)
(***************************************************************************)
Init ==
    /\ files \in InitialFiles
    /\ resp = NoResp
    /\ models = LoadedModels(0, 0, 0)
    /\ memo = NoMemo
    /\ procs = IdleProcs
    /\ order = <<>>

Next ==
    \/ \E t \in KeyedTables : GetAll(t)
    \/ \E t \in KeyedTables, a \in FilterArgs : Filter(t, a[1], a[2], a[3])
    \/ \E t \in KeyedTables : \E record \in Records(t) : Add(t, record)
    \/ GetRules
    \/ \E record \in RuleRecords : AddRule(record)
    \/ \E i \in 1..Len(DssBodies) : PostRecommend(i, DssBodies[i], FALSE)

Spec == Init /\ [][Next]_vars

(***************************************************************************)
(* The DSS view: every loaded model, recommend calls between rule and      *)
(* claim additions.                                                        *)
(***************************************************************************)
ModelChoices ==
    { LoadedModels(l, w, p) : l \in 0..1,
                              w \in 0..(Len(WaterOutputs) - 1),
                              p \in 0..(Len(ProductivityOutputs) - 1) }

InitDSS ==
    /\ \/ /\ files = DataFiles(FraFileClean, RulesFile)
          /\ models \in ModelChoices
       \/ /\ files = DataFiles(FraFileClean, NoFile)
          /\ models \in {LoadedModels(1, 0, 0), LoadedModels(0, 3, 3)}
    /\ resp = NoResp
    /\ memo = NoMemo
    /\ procs = IdleProcs
    /\ order = <<>>

NextDSS ==
    \/ \E i \in 1..Len(DssBodies), remember \in BOOLEAN :
          /\ remember => ~memo.set
          /\ PostRecommend(i, DssBodies[i], remember)
    \/ GetRules
    \/ \E record \in RuleRecords : AddRule(record)
    \/ Add("fra", FraGood)
    \/ Filter("fra", Arg(23), Arg(5), Arg(101))

SpecDSS == InitDSS /\ [][NextDSS]_vars

(***************************************************************************)
(* Claims about the rule engine (checked under SpecDSS).                   *)
(***************************************************************************)
Recommended == resp.op = "recommend" /\ resp.status = 200

Schemes == resp.dss.Recommended_Schemes

SchemeLabels == <<"MGNREGA", "Jal Jeevan Mission", "PM-KISAN Yojana">>

\* C1: the list returned by recommend is the sub-list of <<MGNREGA, Jal Jeevan
\* Mission, PM-KISAN Yojana>> that keeps, in that order, MGNREGA iff
\* productivity_index < 40, Jal Jeevan Mission iff water_index < 50 and
\* PM-KISAN Yojana iff land_use_class = 1.
C1_RuleList ==
    Recommended =>
        Schemes = SelectSeq(SchemeLabels,
                            LAMBDA x :
                               \/ x = "MGNREGA" /\ resp.raw[3] < 40000
                               \/ x = "Jal Jeevan Mission" /\ resp.raw[2] < 50000
                               \/ x = "PM-KISAN Yojana" /\ resp.raw[1] = 1)

\* (39.9, 49.9, class 1) gives all three labels in order
C1_Witness ==
    /\ Recommended
    /\ resp.raw = <<1, 49900, 39900>>
    /\ Schemes = SchemeLabels

\* C8: the thresholds are strict: a productivity_index of exactly 40 never
\* emits MGNREGA and a water_index of exactly 50 never emits Jal Jeevan
\* Mission; each label is emitted below its threshold and never at or above.
C8_StrictThresholds ==
    Recommended =>
        /\ resp.raw[3] >= 40000 => "MGNREGA" \notin Range(Schemes)
        /\ resp.raw[3] < 40000 => "MGNREGA" \in Range(Schemes)
        /\ resp.raw[2] >= 50000 => "Jal Jeevan Mission" \notin Range(Schemes)
        /\ resp.raw[2] < 50000 => "Jal Jeevan Mission" \in Range(Schemes)

\* both outputs exactly at their thresholds, neither label emitted
C8_Witness ==
    /\ Recommended
    /\ resp.raw[3] = 40000
    /\ resp.raw[2] = 50000
    /\ "MGNREGA" \notin Range(Schemes)
    /\ "Jal Jeevan Mission" \notin Range(Schemes)

\* C9: two recommend calls whose predictor outputs are equal return the same
\* list, whatever calls ran before or between them (memo is an earlier call).
C9_Deterministic ==
    (Recommended /\ memo.set /\ memo.raw = resp.raw) => memo.schemes = Schemes

\* a later call with another request body and equal predictor outputs, after
\* rows were added to the tables in between
C9_Witness ==
    /\ Recommended
    /\ memo.set
    /\ memo.raw = resp.raw
    /\ memo.input # resp.input
    /\ TotalRows > memo.rows
    /\ Len(files["dss"].rows) > 1
    /\ Len(Schemes) > 0

\* C10: every list returned by recommend has between 0 and 3 entries, no label
\* twice, and only labels among the three scheme names.
C10_ListShape ==
    Recommended =>
        /\ Len(Schemes) \in 0..3
        /\ \A i, j \in 1..Len(Schemes) : Schemes[i] = Schemes[j] => i = j
        /\ Range(Schemes) \subseteq Range(SchemeLabels)

\* a list of all three labels, each once
C10_Witness == Recommended /\ Len(Schemes) = 3

(***************************************************************************)
(* Claims about the tables (checked under Spec).                           *)
(***************************************************************************)
\* the value a CSV field stands for: missing, a number or a text
FieldValue(text) ==
    IF text \in NaTexts \cup Placeholders THEN NaN
    ELSE IF IsNumText(text) THEN Num(TextToInt(text))
    ELSE Str(text)

AllGiven(args) == \A i \in 1..3 : args[i].given /\ args[i].v >= 1

Lacks(t, record) ==
    \E i \in 1..Len(required_columns(t)) :
        ~HasKey(record, required_columns(t)[i])

\* C3: an add on fra, assets or socio whose record lacks a required field
\* fails with 400, the message names the first missing field in the table's
\* required-field order, and the files are the same after the call as before.
C3_MissingField ==
    [][(resp'.op = "add" /\ resp'.table \in KeyedTables
        /\ Lacks(resp'.table, resp'.record)) =>
          LET req == required_columns(resp'.table)
          IN  /\ resp'.status = 400
              /\ \E i \in 1..Len(req) :
                    /\ ~HasKey(resp'.record, req[i])
                    /\ \A j \in 1..(i - 1) : HasKey(resp'.record, req[j])
                    /\ resp'.detail = "Missing field: " \o req[i]
              /\ files' = files]_vars

\* a claims record missing only Area_Granted_ha, and one missing two fields
C3_Witness ==
    /\ resp.op = "add"
    /\ resp.table = "fra"
    /\ resp.record = Without(FraGood, "Area_Granted_ha")
    /\ resp.status = 400
    /\ resp.detail = "Missing field: Area_Granted_ha"
    /\ files["fra"].exists

\* C4: a successful add on a table of n rows leaves a file of n+1 rows: the n
\* earlier rows in their order, then the new record as the last row, the
\* earlier columns in their order; a row with the same key may already exist.
C4_AppendLast ==
    [][(resp'.op = "add" /\ resp'.status = 200) =>
          LET old == files[resp'.table]
              new == files'[resp'.table]
              n == Len(old.rows)
              record == resp'.record
          IN  /\ Len(new.rows) = n + 1
              /\ Len(new.cols) >= Len(old.cols)
              /\ SubSeq(new.cols, 1, Len(old.cols)) = old.cols
              /\ \A i \in 1..n : \A j \in 1..Len(old.cols) :
                    FieldValue(new.rows[i][j]) = FieldValue(old.rows[i][j])
              /\ \A j \in 1..Len(new.cols) :
                    new.rows[n + 1][j] =
                       IF HasKey(record, new.cols[j])
                       THEN CellText(Value(record, new.cols[j]))
                       ELSE <<>>]_vars

SameKeyRows(file) ==
    {i \in 1..Len(file.rows) :
        /\ FieldValue(file.rows[i][1]) = Num(23)
        /\ FieldValue(file.rows[i][2]) = Num(5)
        /\ FieldValue(file.rows[i][3]) = Num(101)}

\* the same LocationKey added twice to a table that already held it
C4_Witness ==
    /\ resp.op = "add"
    /\ resp.status = 200
    /\ resp.table = "fra"
    /\ Len(files["fra"].rows) = 4
    /\ Cardinality(SameKeyRows(files["fra"])) = 3

\* C5: after a successful add, loading the table again (load_csv, then
\* clean_numeric) yields the same rows with the same values as the table the
\* handler held in memory after the append.
C5_RoundTrip ==
    (resp.op = "add" /\ resp.status = 200) =>
        to_dict(get_data(resp.table)) = to_dict(resp.df)

\* C6: no call updates or deletes a row in place: every row of a backing file
\* is still in the file after any call, with the same field values and in the
\* same relative order.
C6_AppendOnly ==
    [][\A t \in Tables :
          files[t].exists =>
             /\ files'[t].exists
             /\ Len(files'[t].rows) >= Len(files[t].rows)
             /\ Len(files'[t].cols) >= Len(files[t].cols)
             /\ SubSeq(files'[t].cols, 1, Len(files[t].cols)) = files[t].cols
             /\ \A i \in 1..Len(files[t].rows) :
                   \A j \in 1..Len(files[t].cols) :
                      FieldValue(files'[t].rows[i][j])
                         = FieldValue(files[t].rows[i][j])]_vars

\* two adds on the hand-written claims file: its rows are rewritten (the
\* placeholders are rendered empty) and stand for the same values
C6_Witness ==
    /\ Len(files["fra"].rows) = 4
    /\ files["fra"].rows[1] # FraFileRaw.rows[1]
    /\ \A i \in 1..2 : \A j \in 1..Len(FraRequired) :
          FieldValue(files["fra"].rows[i][j]) = FieldValue(FraFileRaw.rows[i][j])

(***************************************************************************)
(* Two clients adding at the same time.                                    *)
(***************************************************************************)
InitConc ==
    /\ files \in InitialFiles
    /\ resp = NoResp
    /\ models = LoadedModels(0, 0, 0)
    /\ memo = NoMemo
    /\ procs = IdleProcs
    /\ order = <<>>

NextConc ==
    \/ \E p \in Procs, t \in KeyedTables : \E record \in Records(t) :
          AddLoad(p, t, record)
    \/ \E p \in Procs : AddPersist(p)

SpecConc == InitConc /\ [][NextConc]_vars

Succeeded(p) == procs[p].pc = "done" /\ procs[p].status = 200

\* both calls loaded the file before either saved it
LoadsFirst ==
    /\ Len(order) = 4
    /\ order[1][2] = "load"
    /\ order[2][2] = "load"
    /\ order[3][2] = "persist"
    /\ order[4][2] = "persist"

RenderRecord(file, record) ==
    [j \in 1..Len(file.cols) |->
       IF HasKey(record, file.cols[j])
       THEN CellText(Value(record, file.cols[j])) ELSE <<>>]

\* C7: two concurrent add calls on one table can race: when both load before
\* either saves, both return the success confirmation, yet the file holds one
\* row more than before, the record of the call that saved last; the record
\* of the other call is lost.
C7_LostUpdate ==
    \A p, q \in Procs :
       (/\ p # q
        /\ Succeeded(p)
        /\ Succeeded(q)
        /\ procs[p].table = procs[q].table
        /\ LoadsFirst
        /\ order[4][1] = q) =>
          LET file == files[procs[q].table]
              n == Len(procs[p].df.rows)
          IN  /\ Len(procs[q].df.rows) = n
              /\ Len(file.rows) = n + 1
              /\ file.rows[n + 1] = RenderRecord(file, procs[q].record)
              /\ procs[p].detail = "Record added successfully"
              /\ procs[q].detail = "Record added successfully"

\* the race, with two different records: the first writer's is not in the file
C7_Witness ==
    /\ Succeeded(1)
    /\ Succeeded(2)
    /\ procs[1].table = "fra"
    /\ procs[2].table = "fra"
    /\ LoadsFirst
    /\ order[4][1] = 2
    /\ procs[1].record = FraGood
    /\ procs[2].record = Replace(FraGood, "State_Code", Str(MP))
    /\ \A i \in 1..Len(files["fra"].rows) :
          files["fra"].rows[i] # RenderRecord(files["fra"], FraGood)

(***************************************************************************)
(* More claims about filter (checked under Spec).                          *)
(***************************************************************************)
KeyColumns == <<"State_Code", "District_Code", "Village_ID">>

\* the rows of the loaded table that agree with every given non-zero key
RowsMatching(t, args) ==
    SelectSeq(to_dict(get_data(t)),
              LAMBDA r : \A i \in 1..3 :
                            (args[i].given /\ args[i].v # 0) =>
                               r[KeyColumns[i]] = Num(args[i].v))

\* C11: filter applies an equality predicate only for the keys that are
\* present; an omitted key imposes no constraint and a key given as 0 is
\* treated like an omitted key, so filter(state=0, district=d) returns what
\* filter(district=d) returns.
C11_ZeroIsAbsent ==
    (resp.op = "filter" /\ files[resp.table].exists) =>
        LET rows == RowsMatching(resp.table, resp.args)
            omitted == [i \in 1..3 |->
                          IF resp.args[i] = Arg(0) THEN NoArg ELSE resp.args[i]]
            same == FilterFrame(get_data(resp.table), omitted[1], omitted[2],
                                omitted[3])
        IN  /\ resp.body = rows
            /\ resp.status = (IF rows = <<>> THEN 404 ELSE 200)
            /\ resp.body = (IF Empty(same) THEN <<>> ELSE to_dict(same))

\* state_code=0 with district_code=5 returned rows of two different states
C11_Witness ==
    /\ resp.op = "filter"
    /\ resp.args = <<Arg(0), Arg(5), NoArg>>
    /\ resp.status = 200
    /\ \E i, j \in 1..Len(resp.body) :
          resp.body[i]["State_Code"] # resp.body[j]["State_Code"]
    /\ \A i \in 1..Len(resp.body) : resp.body[i]["State_Code"] # Num(0)

\* C12: a filter call whose result set is empty returns 404, and after any
\* filter call, with rows or with 404, every backing file is what it was
\* before the call.
C12_FilterReadOnly ==
    [][resp'.op = "filter" =>
          /\ files' = files
          /\ (files[resp'.table].exists
              /\ RowsMatching(resp'.table, resp'.args) = <<>>) =>
                 /\ resp'.status = 404
                 /\ resp'.body = <<>>
          /\ resp'.status \in {200, 404}
          /\ resp'.status = 200 => resp'.body # <<>>]_vars

\* a filter on the assets table for a village with no row: 404, file in place
C12_Witness ==
    /\ resp.op = "filter"
    /\ resp.table = "assets"
    /\ resp.args[3] = Arg(101)
    /\ resp.status = 404
    /\ resp.detail = "No records found for given filter"
    /\ Len(files["assets"].rows) > 0

(***************************************************************************)
(* The normalizer on its own: clean_numeric applied again and again to one *)
(* table.  resp.df is the table, resp.body the table before the first run, *)
(* resp.input the number of runs.                                          *)
(***************************************************************************)
CleanCells ==
    { Num(4), NaN, Str(<<"4">>), Str(Dash), Str(<<"n", "a", "n">>), Str(MP),
      Str(<<>>), Str(Dash \o Dash) }

\* a column holding a text has dtype object; one holding only numbers and
\* missing values is numeric or object
DtypeFits(dtype, cells) ==
    dtype = "obj" \/ \A i \in 1..Len(cells) : cells[i].t # "str"

CleanInputs ==
    { df \in { Frame(<<"A", "B">>, <<d1, d2>>, << <<a1, b1>>, <<a2, b2>> >>) :
                 a1 \in CleanCells, a2 \in CleanCells, b1 \in CleanCells,
                 b2 \in CleanCells, d1 \in {"num", "obj"},
                 d2 \in {"num", "obj"} } :
        \A j \in 1..2 : DtypeFits(df.dtypes[j], Column(df.rows, j)) }

InitClean ==
    /\ files = DataFiles(FraFileClean, RulesFile)
    /\ resp \in { [NoResp EXCEPT !.op = "table", !.df = df] : df \in CleanInputs }
    /\ models = LoadedModels(0, 0, 0)
    /\ memo = NoMemo
    /\ procs = IdleProcs
    /\ order = <<>>

\* df = clean_numeric(df)
Normalize ==
    /\ resp.op \in {"table", "clean"}
    /\ resp.input < MaxCleans
    /\ resp' = [resp EXCEPT
                  !.op = "clean", !.input = @ + 1,
                  !.body = IF resp.op = "table" THEN to_dict(resp.df) ELSE @,
                  !.df = clean_numeric(@)]
    /\ UNCHANGED <<files, models, memo, procs, order>>

NextClean == Normalize

SpecClean == InitClean /\ [][NextClean]_vars

\* C13: clean_numeric is idempotent: applied to an already normalized table
\* it returns the same cells and the same column types.
C13_Idempotent ==
    [][resp'.op = "clean" =>
          /\ clean_numeric(resp'.df) = resp'.df
          /\ resp.op = "clean" => resp'.df = resp.df]_vars

\* a second run on a table the first run changed: a placeholder became
\* missing and a column became numeric
C13_Witness ==
    /\ resp.op = "clean"
    /\ resp.input = 2
    /\ resp.body # to_dict(resp.df)
    /\ resp.body[1]["A"] = Str(Dash)
    /\ resp.df.rows[1][1] = NaN
    /\ resp.df.dtypes = <<"num", "obj">>

(***************************************************************************)
(* Claims about loading (checked under Spec).                              *)
(***************************************************************************)
\* the required fields of a table, the rules table included
Required(t) == IF t = "dss" THEN RuleRequired ELSE required_columns(t)

Complete(t, record) ==
    \A i \in 1..Len(Required(t)) : HasKey(record, Required(t)[i])

\* C14: when the backing file of a table does not exist, all, filter, add
\* with a complete record and rules fail with 404 and return no rows; when
\* the file exists, all returns 200 with the full table as a list of records
\* in file order.
C14_LoadOrNotFound ==
    /\ (/\ resp.op \in {"all", "filter", "add", "rules"}
        /\ ~files[resp.table].exists
        /\ resp.op = "add" => Complete(resp.table, resp.record)) =>
          /\ StatusCode(resp) = 404
          /\ resp.body = <<>>
    /\ (resp.op = "all" /\ files[resp.table].exists) =>
          LET file == files[resp.table]
          IN  /\ StatusCode(resp) = 200
              /\ Len(resp.body) = Len(file.rows)
              /\ \A i \in 1..Len(file.rows) : \A j \in 1..Len(file.cols) :
                    resp.body[i][file.cols[j]]
                       \in {FieldValue(file.rows[i][j]), Str(file.rows[i][j])}

\* what the handlers themselves do: 404 from every loading operation on a
\* missing file, and one returned record per row of an existing file
HandlerLevelLoad ==
    /\ (/\ resp.op \in {"all", "filter", "add", "rules"}
        /\ ~files[resp.table].exists
        /\ resp.op = "add" => Complete(resp.table, resp.record)) =>
          /\ resp.status = 404
          /\ resp.body = <<>>
    /\ (resp.op = "all" /\ files[resp.table].exists) =>
          /\ resp.status = 200
          /\ Len(resp.body) = Len(files[resp.table].rows)

(***************************************************************************)
(* More claims about recommend (checked under SpecDSS).                    *)
(***************************************************************************)
\* C15: the rules table is never consulted by recommend: the response is
\* fixed by the request body and the loaded predictors, whatever the rules
\* file holds, after any number of rule additions and when the file is
\* missing; two calls with the same input get the same response.
C15_RulesUnused ==
    Recommended =>
        LET data == DSSInput(DssBodies[resp.input])
            raw == <<predict(models.land, LandOutputs, land_features(data)),
                     predict(models.water, WaterOutputs, water_features(data)),
                     predict(models.productivity, ProductivityOutputs,
                             productivity_features(data))>>
        IN  /\ resp.raw = raw
            /\ resp.dss =
                 [Land_Use_Prediction |-> raw[1],
                  Water_Index |-> Round2(raw[2]),
                  Productivity_Index |-> Round2(raw[3]),
                  Recommended_Schemes |->
                     SelectSeq(SchemeLabels,
                               LAMBDA x :
                                  \/ x = SchemeLabels[1] /\ raw[3] < 40000
                                  \/ x = SchemeLabels[2] /\ raw[2] < 50000
                                  \/ x = SchemeLabels[3] /\ raw[1] = 1)]
            /\ (memo.set /\ DSSInput(DssBodies[memo.input]) = data) =>
                  memo.dss = resp.dss

\* the same body sent before and after two rules were added
C15_Witness ==
    /\ Recommended
    /\ memo.set
    /\ memo.input = resp.input
    /\ memo.rules # files["dss"]
    /\ Len(files["dss"].rows) = Len(memo.rules.rows) + 2
    /\ Len(Schemes) > 0

NonNumeric(c) == c.t = "nan" \/ (c.t = "str" /\ ~IsNumText(c.s))

BadBody(body) ==
    \E k \in Range(DssFields) :
       ~HasKey(body, k) \/ NonNumeric(Value(body, k))

NextAdd ==
    \/ \E t \in KeyedTables : \E record \in Records(t) \cup OddRecords(t) :
          Add(t, record)
    \/ \E record \in RuleRecords \cup PartialRules : AddRule(record)
    \/ \E t \in KeyedTables : GetAll(t)
    \/ GetRules

SpecAdd == Init /\ [][NextAdd]_vars

(***************************************************************************)
(* Claims about what add accepts (checked under SpecAdd).                  *)
(***************************************************************************)
Confirmations == {"Record added successfully", "DSS rule added successfully"}

\* C17: on each of the four tables, add answers a record lacking a required
\* field with 400 and appends and persists nothing; any other record is
\* appended and persisted, and the response carries the confirmation
\* message and the record unchanged.
C17_AddValidates ==
    [][(resp'.op = "add" /\ files[resp'.table].exists) =>
          LET t == resp'.table
          IN  IF ~Complete(t, resp'.record)
              THEN resp'.status = 400 /\ files' = files
              ELSE /\ resp'.status = 200
                   /\ resp'.detail \in Confirmations
                   /\ Len(files'[t].rows) = Len(files[t].rows) + 1]_vars

KeyCell(text) ==
    FieldValue(text).t = "num" /\ FieldValue(text).n >= 1

\* a count, an area or a percentage: missing in a hand-written file, or a
\* number within its bounds
BoundedCell(text, percentage) ==
    \/ FieldValue(text) = NaN
    \/ /\ FieldValue(text).t = "num"
       /\ FieldValue(text).n >= 0
       /\ percentage => FieldValue(text).n <= 100

Percentages == {"Poverty_Index", "Literacy_Rate"}

\* C18: in every state reachable through the add endpoints, every row of
\* the fra, assets and socio tables has State_Code, District_Code and
\* Village_ID that are integers >= 1, counts and areas >= 0, and every
\* socio row has Poverty_Index and Literacy_Rate within 0..100.
C18_DataModel ==
    \A t \in KeyedTables :
       files[t].exists =>
          \A i \in 1..Len(files[t].rows) : \A j \in 1..Len(files[t].cols) :
             LET col == files[t].cols[j]
                 text == files[t].rows[i][j]
             IN  /\ col \in Range(KeyColumns) => KeyCell(text)
                 /\ (col \in Range(required_columns(t))
                     /\ col \notin Range(KeyColumns) \cup {"FRA_Type"}) =>
                       BoundedCell(text, col \in Percentages)

(***************************************************************************)
(* Process start.  backend.main imports the four routers; routers/dss.py   *)
(* loads the three artifacts at import, outside any try.  Requests are     *)
(* served once the import has succeeded.                                   *)
(***************************************************************************)
InitStart ==
    /\ files = DataFiles(FraFileClean, RulesFile)
    /\ resp = NoResp
    /\ models \in { [LoadedModels(0, 0, 0) EXCEPT !.app = "importing",
                                                 !.artifacts = a] :
                      a \in SUBSET Range(ModelFiles) }
    /\ memo = NoMemo
    /\ procs = IdleProcs
    /\ order = <<>>

\* load_model: raises when the path does not exist
load_model(path) == IF path \in models.artifacts THEN "loaded" ELSE "raised"

\* `from backend.routers import fra, assets, socio_economic, dss`: the three
\* load_model calls of routers/dss.py run; an exception leaves no app object
ImportApp ==
    /\ models.app = "importing"
    /\ models' = [models EXCEPT
                    !.app = IF \E i \in 1..Len(ModelFiles) :
                                  load_model(ModelFiles[i]) = "raised"
                            THEN "failed" ELSE "running"]
    /\ UNCHANGED <<files, resp, memo, procs, order>>

NextStart ==
    \/ ImportApp
    \/ /\ models.app = "running"
       /\ \/ \E t \in KeyedTables : GetAll(t)
          \/ \E t \in KeyedTables : Filter(t, Arg(23), Arg(5), NoArg)
          \/ \E t \in KeyedTables : (\E record \in Records(t) : Add(t, record))
          \/ GetRules
          \/ \E record \in RuleRecords : AddRule(record)
          \/ \E i \in 1..Len(DssBodies) : PostRecommend(i, DssBodies[i], FALSE)

SpecStart == InitStart /\ [][NextStart]_vars

\* C16: when a predictor artifact is missing at process start, the load
\* failure is swallowed: the application starts and serves the fra, assets,
\* socio and rules endpoints, and the failure shows only as an error on a
\* recommend call, never as a recommendation built from null predictions.
C16_DeferredFailure ==
    (models.artifacts # Range(ModelFiles) /\ models.app # "importing") =>
        /\ models.app = "running"
        /\ resp.op = "recommend" => (resp.status >= 500 /\ resp.dss = NoDss)

(***************************************************************************)
(* The fields each predictor is given (checked under SpecDSS).             *)
(***************************************************************************)
Fed(i) == Range(resp.fed[i])

\* C20 as stated: the three predictors run on pairwise disjoint subsets of
\* the 14 input fields.
C20_Disjoint ==
    Recommended =>
        /\ Fed(1) \cap Fed(2) = {}
        /\ Fed(1) \cap Fed(3) = {}
        /\ Fed(2) \cap Fed(3) = {}

\* C20, amended: the land-use predictor is given the five claims fields and
\* the water-index predictor three asset fields, two disjoint subsets; the
\* productivity predictor is given all 14 input fields, those of the other
\* two included.
C20_FeatureSubsets ==
    Recommended =>
        /\ Fed(1) \cap Fed(2) = {}
        /\ Cardinality(Fed(1)) = 5
        /\ Cardinality(Fed(2)) = 3
        /\ Fed(3) = Range(DssFields)
        /\ Cardinality(Fed(3)) = 14
        /\ Fed(1) \cup Fed(2) \subseteq Fed(3)

\* a recommend call in which Claims_Filed went to two predictors and
\* Agri_Land_ha to two
C20_Witness ==
    /\ Recommended
    /\ "Claims_Filed" \in Fed(1) \cap Fed(3)
    /\ "Agri_Land_ha" \in Fed(2) \cap Fed(3)
    /\ "Claims_Filed" \notin Fed(2)

(***************************************************************************)
(* Feature order and rounding (checked under SpecDSS).                     *)
(***************************************************************************)
ClaimsFive ==
    <<"Claims_Filed", "Claims_Verified", "Patas_Granted", "Area_Claimed_ha",
      "Area_Granted_ha">>

AssetFive ==
    <<"Agri_Land_ha", "Forest_Area_ha", "WaterBodies_Count", "Water_Area_ha",
      "Homesteads_Count">>

SocioFour ==
    <<"FRA_Households", "Tribal_Population", "Poverty_Index", "Literacy_Rate">>

WaterThree == <<"WaterBodies_Count", "Water_Area_ha", "Agri_Land_ha">>

Vector(fields, data) == [i \in 1..Len(fields) |-> data[fields[i]]]

\* C21: for every input the land-use vector is the five claims fields in
\* the documented order, the water vector is <<WaterBodies_Count,
\* Water_Area_ha, Agri_Land_ha>>, and the productivity vector is the claims
\* five, then the asset five, then the socio four (length 14); each
\* predictor's output is its output on that vector.
C21_FeatureOrder ==
    Recommended =>
        LET data == DSSInput(DssBodies[resp.input])
        IN  /\ resp.fed = <<ClaimsFive, WaterThree,
                            ClaimsFive \o AssetFive \o SocioFour>>
            /\ Len(resp.fed[3]) = 14
            /\ resp.raw[1] = predict(models.land, LandOutputs,
                                     Vector(ClaimsFive, data))
            /\ resp.raw[2] = predict(models.water, WaterOutputs,
                                     Vector(WaterThree, data))
            /\ resp.raw[3] = predict(models.productivity, ProductivityOutputs,
                                     Vector(ClaimsFive \o AssetFive
                                              \o SocioFour, data))

\* the first request body: Agri_Land_ha (50) is sixth in the productivity
\* vector and third in the water vector
C21_Witness ==
    /\ Recommended
    /\ resp.input = 1
    /\ resp.fed[3][6] = "Agri_Land_ha"
    /\ resp.fed[2][3] = "Agri_Land_ha"
    /\ resp.fed[1][1] = "Claims_Filed"

\* C26: the rules are applied to the unrounded outputs and the response
\* reports the outputs rounded to 2 decimals: a productivity output in
\* [39.995, 40) is reported as 40.0 together with MGNREGA, and a water
\* output in [49.995, 50) as 50.0 together with Jal Jeevan Mission.
C26_RoundedReport ==
    Recommended =>
        /\ (resp.raw[3] >= 39995 /\ resp.raw[3] < 40000) =>
              /\ resp.dss.Productivity_Index = 4000
              /\ "MGNREGA" \in Range(Schemes)
        /\ (resp.raw[2] >= 49995 /\ resp.raw[2] < 50000) =>
              /\ resp.dss.Water_Index = 5000
              /\ "Jal Jeevan Mission" \in Range(Schemes)

\* outputs 39.996 and 49.996: both reported at their threshold, both labels
C26_Witness ==
    /\ Recommended
    /\ resp.raw[3] = 39996
    /\ resp.raw[2] = 49996
    /\ resp.dss.Productivity_Index = 4000
    /\ resp.dss.Water_Index = 5000
    /\ SubSeq(Schemes, 1, 2) = <<"MGNREGA", "Jal Jeevan Mission">>

(***************************************************************************)
(* Order of the checks in add, and what a call leaves alone (checked under *)
(* Spec).                                                                  *)
(***************************************************************************)
\* C27: in add for fra, assets and socio the required-field check runs
\* before the table is loaded: with the backing file missing, a record
\* lacking a required field is answered 400, a complete record 404, and in
\* neither case is a backing file created.
C27_ValidateBeforeLoad ==
    [][(/\ resp'.op = "add"
        /\ resp'.table \in KeyedTables
        /\ ~files[resp'.table].exists) =>
          /\ Lacks(resp'.table, resp'.record) => resp'.status = 400
          /\ ~Lacks(resp'.table, resp'.record) => resp'.status = 404
          /\ files' = files
          /\ ~files'[resp'.table].exists]_vars

\* a record without Area_Granted_ha sent while the claims file is missing
C27_Witness ==
    /\ resp.op = "add"
    /\ resp.table = "fra"
    /\ ~files["fra"].exists
    /\ Lacks("fra", resp.record)
    /\ resp.status = 400
    /\ resp.detail = "Missing field: Area_Granted_ha"

\* C30: an add call on one table, successful or not, leaves the backing
\* files of the other three tables unchanged; a recommend call leaves the
\* four backing files and the three loaded models unchanged.
C30_Frame ==
    [][/\ resp'.op = "add" =>
             \A u \in Tables \ {resp'.table} : files'[u] = files[u]
       /\ resp'.op = "recommend" => (files' = files /\ models' = models)]_vars

\* a successful add on assets, the three other files still as shipped
C30_Witness ==
    /\ resp.op = "add"
    /\ resp.table = "assets"
    /\ resp.status = 200
    /\ Len(files["assets"].rows) = Len(AssetFile.rows) + 1
    /\ files["fra"] = FraFileRaw
    /\ files["socio"] = SocioFile
    /\ files["dss"] = RulesFile

(***************************************************************************)
(* A table without rows: the claims file starts with its header line only. *)
(***************************************************************************)
\* C28: a filter call with no filter key, or with every key 0, applies no
\* predicate: on a table with at least one row it returns the list that
\* all returns; on a table with zero rows it is answered 404 while all is
\* answered 200 with an empty list.
InitEmpty ==
    /\ files = DataFiles(FraFileEmpty, RulesFile)
    /\ resp = NoResp
    /\ models = LoadedModels(0, 0, 0)
    /\ memo = NoMemo
    /\ procs = IdleProcs
    /\ order = <<>>

NextEmpty ==
    \/ \E t \in Tables : GetAll(t)
    \/ \E t \in KeyedTables : \E a \in FilterArgs : Filter(t, a[1], a[2], a[3])
    \/ \E record \in FraRecords : Add("fra", record)

SpecEmpty == InitEmpty /\ [][NextEmpty]_vars

NoPredicate == \A i \in 1..3 : ~Truthy(resp.args[i])

C28_FilterWithoutKeys ==
    /\ (/\ resp.op = "filter"
        /\ NoPredicate
        /\ files[resp.table].exists) =>
          IF Len(files[resp.table].rows) > 0
          THEN /\ resp.status = 200
               /\ resp.body = to_dict(get_data(resp.table))
               /\ Len(resp.body) = Len(files[resp.table].rows)
          ELSE /\ resp.status = 404
               /\ resp.detail = "No records found for given filter"
    /\ (/\ resp.op = "all"
        /\ files[resp.table].exists
        /\ Len(files[resp.table].rows) = 0) =>
          (resp.status = 200 /\ resp.body = <<>>)

\* every key 0 on the claims file that holds only its header line
C28_Witness ==
    /\ resp.op = "filter"
    /\ resp.table = "fra"
    /\ resp.args = <<Arg(0), Arg(0), Arg(0)>>
    /\ files["fra"] = FraFileEmpty
    /\ resp.status = 404

(***************************************************************************)
(* Keys a table has no column for (checked under SpecUnknown).             *)
(***************************************************************************)
NextUnknown ==
    \/ \E t \in KeyedTables : \E record \in UnknownRecords(t) : Add(t, record)
    \/ \E t \in KeyedTables : GetAll(t)

SpecUnknown == Init /\ [][NextUnknown]_vars

\* the keys of a record that the stored table has no column for, in the
\* record's order
UnknownKeys(cols, record) ==
    SelectSeq(Keys(record), LAMBDA k : k \notin Range(cols))

\* C22: add on fra, assets and socio accepts a record with keys the table
\* has no column for: the call succeeds, every such key becomes a new column
\* after the existing ones, the new row holds the given value in it, every
\* earlier row is missing there, and no earlier value changes.
C22_UnknownKeys ==
    [][(/\ resp'.op = "add"
        /\ resp'.table \in KeyedTables
        /\ files[resp'.table].exists
        /\ ~Lacks(resp'.table, resp'.record)
        /\ UnknownKeys(files[resp'.table].cols, resp'.record) # <<>>) =>
          LET t == resp'.table
              old == files[t]
              new == files'[t]
              unknown == UnknownKeys(old.cols, resp'.record)
              n == Len(old.rows)
              w == Len(old.cols)
          IN  /\ resp'.status = 200
              /\ new.exists
              /\ new.cols = old.cols \o unknown
              /\ resp'.df.cols = new.cols
              /\ Len(new.rows) = n + 1
              /\ \A j \in 1..Len(unknown) :
                   /\ new.rows[n + 1][w + j]
                        = CellText(Value(resp'.record, unknown[j]))
                   /\ resp'.df.rows[n + 1][w + j]
                        = Value(resp'.record, unknown[j])
                   /\ \A i \in 1..n :
                        /\ new.rows[i][w + j] = <<>>
                        /\ resp'.df.rows[i][w + j] = NaN
              /\ \A i \in 1..n : \A j \in 1..w :
                   FieldValue(new.rows[i][j]) = FieldValue(old.rows[i][j])]_vars

\* the assets file after the record with Remarks and Source_Year was added
\* to the file as shipped: two new columns, empty in the first row
C22_Witness ==
    /\ resp.op = "add"
    /\ resp.table = "assets"
    /\ resp.status = 200
    /\ resp.record = AssetExtra
    /\ files["assets"].cols = AssetRequired \o <<"Remarks", "Source_Year">>
    /\ Len(files["assets"].rows) = 2
    /\ files["assets"].rows[1] = AssetFile.rows[1] \o << <<>>, <<>> >>
    /\ files["assets"].rows[2][9] = MP
    /\ files["assets"].rows[2][10] = <<"2", "1">>

(***************************************************************************)
(* What the first run of clean_numeric does to each column (checked under  *)
(* SpecClean).                                                             *)
(***************************************************************************)
IsPlaceholder(c) == c.t = "str" /\ c.s \in Placeholders

IsNumeric(c) == c.t = "num" \/ (c.t = "str" /\ IsNumText(c.s))

\* a text that is neither a number, nor a placeholder, nor a spelling of NaN
\* that to_numeric itself reads as missing
Genuine(c) ==
    /\ c.t = "str"
    /\ ~IsNumText(c.s)
    /\ c.s \notin Placeholders \cup NanTexts

StartedFrom(t, df) ==
    { f \in InitialFiles : f[t].exists /\ clean_numeric(read_csv(f[t])) = df }

\* C25: under every interleaving of two add calls on the same table, the
\* final file holds every row present before both calls and, last, the
\* record of the call that saved last; at most one of the two records is
\* missing, and no other row is lost or duplicated.
C25_Interleavings ==
    \A p, q \in Procs :
       (/\ p # q
        /\ Succeeded(p)
        /\ Succeeded(q)
        /\ procs[p].table = procs[q].table
        /\ order[Len(order)][1] = q) =>
          LET t == procs[q].table
              file == files[t]
              first == procs[order[1][1]].df
              n == Len(first.rows)
              m == Len(file.rows)
          IN  /\ StartedFrom(t, first) # {}
              /\ \A f \in StartedFrom(t, first) :
                    /\ Len(f[t].rows) = n
                    /\ \A i \in 1..n : \A j \in 1..Len(f[t].cols) :
                          FieldValue(file.rows[i][j])
                            = FieldValue(f[t].rows[i][j])
              /\ m \in {n + 1, n + 2}
              /\ file.rows[m] = RenderRecord(file, procs[q].record)
              /\ m = n + 2 =>
                    \A j \in 1..Len(file.cols) :
                       FieldValue(file.rows[n + 1][j])
                         = FieldValue(RenderRecord(file, procs[p].record)[j])
              /\ m = n + 1 <=> LoadsFirst

\* one call after the other on the hand-written claims file: both records
\* are in the file, in the order of the saves
C25_Witness ==
    /\ Succeeded(1)
    /\ Succeeded(2)
    /\ procs[1].table = "fra"
    /\ procs[2].table = "fra"
    /\ order = << <<2, "load">>, <<2, "persist">>, <<1, "load">>,
                  <<1, "persist">> >>
    /\ procs[2].record = Replace(FraGood, "State_Code", Str(MP))
    /\ procs[1].record = FraGood
    /\ Len(files["fra"].rows) = Len(FraFileRaw.rows) + 2
    /\ files["fra"].rows[3][1] = MP
    /\ files["fra"].rows[4] = RenderRecord(files["fra"], FraGood)

(***************************************************************************)
(* The save is not atomic (checked under SpecCrash: adds that complete,    *)
(* adds killed during the save, and reads after the restart).              *)
(***************************************************************************)
\* the crash points tried for the line being written: none of its cells, or
\* its first two
CutCells == {0, 2}

NextCrash ==
    \/ \E t \in KeyedTables, lines \in 0..MaxRows, cells \in CutCells :
          AddCrash(t, GoodRecord(t), lines, cells)
    \/ \E t \in KeyedTables : Add(t, GoodRecord(t))
    \/ \E t \in KeyedTables : GetAll(t)

InitCrash ==
    /\ files = DataFiles(FraFileRaw, RulesFile)
    /\ resp = NoResp
    /\ models = LoadedModels(0, 0, 0)
    /\ memo = NoMemo
    /\ procs = IdleProcs
    /\ order = <<>>

SpecCrash == InitCrash /\ [][NextCrash]_vars

\* the lines of the new content that had been started when the process died
LinesBegun(args) == args[1].v + (IF args[2].v > 0 THEN 1 ELSE 0)

\* C23: the save of an add is a non-atomic full overwrite: a crash during
\* it can leave the file equal neither to the table before the add nor to
\* the table after it, and a later load then fails or returns fewer rows
\* than were stored before the add.  Here: whenever the crash comes before
\* the line of the last earlier row is started, the file left is neither
\* the old nor the new one, and it is unreadable or holds fewer rows than
\* before; a load of an unreadable file is answered 500, a load of any other
\* file returns the rows the file holds.
C23_TornWrite ==
    [][/\ (/\ resp'.op = "crash"
           /\ LinesBegun(resp'.args) <= Len(files[resp'.table].rows)) =>
             LET t == resp'.table
                 left == files'[t]
             IN  /\ left.exists
                 /\ left # files[t]
                 /\ left # to_csv(resp'.df)
                 /\ \/ Unreadable(left)
                    \/ Len(clean_numeric(read_csv(left)).rows)
                         < Len(files[t].rows)
       /\ resp'.op = "all" =>
             IF ~files[resp'.table].exists THEN resp'.status = 404
             ELSE IF Unreadable(files[resp'.table]) THEN resp'.status = 500
             ELSE /\ resp'.status = 200
                  /\ Len(resp'.body) = Len(files[resp'.table].rows)]_vars

\* the assets file emptied by a crash before the header line was written,
\* and the load after the restart answered 500
C23_Witness ==
    /\ resp.op = "all"
    /\ resp.table = "assets"
    /\ resp.status = 500
    /\ Unreadable(files["assets"])
    /\ files["fra"] = FraFileRaw

(***************************************************************************)
(* The service layer against the routers, on the rules table (checked      *)
(* under SpecService).                                                     *)
(***************************************************************************)
InitService ==
    /\ files \in InitialFiles
                 \cup { DataFiles(f, RulesFileRaw) : f \in {FraFileClean, NoFile} }
    /\ resp = NoResp
    /\ models = LoadedModels(0, 0, 0)
    /\ memo = NoMemo
    /\ procs = IdleProcs
    /\ order = <<>>

NextService ==
    \/ GetRules
    \/ ServiceGetRules
    \/ \E record \in RuleRecords \cup PartialRules : AddRule(record)
    \/ \E record \in RuleRecords \cup PartialRules : ServiceAddRule(record)

SpecService == InitService /\ [][NextService]_vars

\* C29: the service-layer functions and the router endpoints are
\* observationally equivalent: from the same files and given the same
\* arguments they return the same result or the same error status and
\* leave the same table on disk, on all four tables.  Here, on the rules
\* table: a service call answers and writes what the router endpoint would.
C29_LayersEquivalent ==
    [][/\ resp'.op = "service_rules" =>
             IF LoadError("dss") # 0
             THEN resp'.status = LoadError("dss")
             ELSE /\ resp'.status = 200
                  /\ resp'.body = to_dict(get_data("dss"))
       /\ resp'.op = "service_add" =>
             IF LoadError("dss") # 0
             THEN /\ resp'.status = LoadError("dss")
                  /\ files' = files
             ELSE /\ resp'.status = 200
                  /\ files' = save_csv(Appended("dss", resp'.record), "dss")]_vars

====
